---- MODULE Spec2Model ----
(***************************************************************************)
(* Model of kv/db.go: the DistDB client of the key value store.  Every     *)
(* facade method of the DB interface is one action; the goroutine spawned  *)
(* by sendRPC is modelled step by step (getNode, Call, then the Error      *)
(* field and the channel send).  A caller is identified by the call        *)
(* it makes; it may later receive from the channel that the call returned. *)
(***************************************************************************)
EXTENDS Integers, Sequences, FiniteSets, TLC

\* ---- bounds ----
\* The number of facade calls made in one behaviour.
MaxCalls == 2

Calls == 1..MaxCalls
\* The keys of the requests: two keys, and the end keys of the spans over them.
KeySpace == {1, 2}
KeyBounds == {1, 2, 3}
\* The key lists of EndTransaction requests: none, one or two keys.
TxnKeyLists == UNION {[1..n -> KeySpace] : n \in 0..2}
ScanLimits == {1, 2}

\* ---- values ----
NoErr == "nil"
GetNodeErr == "getNode unimplemented"
CallOutcomes == {NoErr, "RemoteCallError", "StaleRouteError"}
NilNode == 0
NilChan == 0
NoKey == 0

\* The cluster's ranges: every key of KeySpace starts a range of its own,
\* [1, 2) and [2, 3); a range is named by its start key.
RangeOf(k) == k
RangesOfKeys(ks) == {RangeOf(ks[i]) : i \in DOMAIN ks}
RangesOfSpan(s, e) == {RangeOf(k) : k \in {x \in KeySpace : s <= x /\ x < e}}

VARIABLES
    callerPc,    \* per call: "idle", "returned", "panicked", "received"
    request,     \* per call: the operation and its request fields
    future,      \* per call: the channel the facade returned (NilChan: nil)
    received,    \* per call: the reply pointer the caller received (0: none)
    chans,       \* the channels made so far, each a sequence of reply pointers
    rangeCache,  \* DistDB.rangeCache
    taskPc,      \* per call: position of the goroutine of sendRPC
    taskKey,     \* key captured by the goroutine
    taskMethod,  \* method captured by the goroutine
    chanVal,     \* channel captured by the goroutine
    taskNode,    \* node, local of the goroutine
    taskErr,     \* err, local of the goroutine
    reply,       \* per call: the reply struct allocated by the facade
    outcome,     \* per call: how resolution and the remote call ended
    numDispatch, \* per call: calls of sendRPC
    numGetNode,  \* per call: calls of getNode
    numCall,     \* per call: calls of node.Call
    numSend      \* per call: values sent on the channel

vars == <<callerPc, request, future, received, chans, rangeCache, taskPc,
          taskKey, taskMethod, chanVal, taskNode, taskErr, reply, outcome,
          numDispatch, numGetNode, numCall, numSend>>

callerVars == <<callerPc, request, future, received>>
taskVars == <<taskPc, taskKey, taskMethod, chanVal, taskNode, taskErr>>
countVars == <<numDispatch, numGetNode, numCall, numSend>>

NoRequest == [op |-> "none", Key |-> NoKey, Inbox |-> NoKey,
              StartKey |-> NoKey, EndKey |-> NoKey, Keys |-> <<>>,
              MaxResults |-> 0]
NoReply == [Error |-> NoErr, allocated |-> FALSE]

Init ==
    /\ callerPc = [c \in Calls |-> "idle"]
    /\ request = [c \in Calls |-> NoRequest]
    /\ future = [c \in Calls |-> NilChan]
    /\ received = [c \in Calls |-> 0]
    /\ chans = <<>>
    /\ rangeCache = {}
    /\ taskPc = [c \in Calls |-> "none"]
    /\ taskKey = [c \in Calls |-> NoKey]
    /\ taskMethod = [c \in Calls |-> ""]
    /\ chanVal = [c \in Calls |-> NilChan]
    /\ taskNode = [c \in Calls |-> NilNode]
    /\ taskErr = [c \in Calls |-> NoErr]
    /\ reply = [c \in Calls |-> NoReply]
    /\ outcome = [c \in Calls |-> "pending"]
    /\ numDispatch = [c \in Calls |-> 0]
    /\ numGetNode = [c \in Calls |-> 0]
    /\ numCall = [c \in Calls |-> 0]
    /\ numSend = [c \in Calls |-> 0]

\* ---- getNode ----
\* getNode finding the node of the key's range.
getNodeResolves(key) == [node |-> RangeOf(key), err |-> NoErr]
getNode(key) == [node |-> NilNode, err |-> GetNodeErr]

\* ---- sendRPC: the part that runs in the caller ----
ChanCapUnbuffered == 1 - 1
ChanCap == 1

\* A caller may make call c once, calls are numbered in the order made.
CanCall(c) ==
    /\ callerPc[c] = "idle"
    /\ c > 1 => callerPc[c - 1] # "idle"

\* sendRPC with the resolution done in the caller, before the return.
sendRPCResolvesFirst(c, key, method, req) ==
    /\ chans' = Append(chans, <<>>)
    /\ chanVal' = [chanVal EXCEPT ![c] = Len(chans) + 1]
    /\ taskKey' = [taskKey EXCEPT ![c] = key]
    /\ taskMethod' = [taskMethod EXCEPT ![c] = method]
    /\ taskNode' = [taskNode EXCEPT ![c] = getNode(key).node]
    /\ taskErr' = [taskErr EXCEPT ![c] = getNode(key).err]
    /\ outcome' = [outcome EXCEPT ![c] =
                     IF getNode(key).err = NoErr THEN "resolved"
                                                 ELSE "resolveFailed"]
    /\ numGetNode' = [numGetNode EXCEPT ![c] = @ + 1]
    /\ taskPc' = [taskPc EXCEPT ![c] = "call"]
    /\ reply' = [reply EXCEPT ![c] = [Error |-> NoErr, allocated |-> TRUE]]
    /\ numDispatch' = [numDispatch EXCEPT ![c] = @ + 1]
    /\ future' = [future EXCEPT ![c] = Len(chans) + 1]
    /\ request' = [request EXCEPT ![c] = req]
    /\ callerPc' = [callerPc EXCEPT ![c] = "returned"]
    /\ UNCHANGED <<received, rangeCache, numCall, numSend>>

\* sendRPC with one channel for all the dispatches, made by the first one.
sendRPCSharedChan(c, key, method, req) ==
    /\ chans' = IF chans = <<>> THEN <<<<>>>> ELSE chans
    /\ chanVal' = [chanVal EXCEPT ![c] = 1]
    /\ taskKey' = [taskKey EXCEPT ![c] = key]
    /\ taskMethod' = [taskMethod EXCEPT ![c] = method]
    /\ taskPc' = [taskPc EXCEPT ![c] = "getNode"]
    /\ reply' = [reply EXCEPT ![c] = [Error |-> NoErr, allocated |-> TRUE]]
    /\ numDispatch' = [numDispatch EXCEPT ![c] = @ + 1]
    /\ future' = [future EXCEPT ![c] = 1]
    /\ request' = [request EXCEPT ![c] = req]
    /\ callerPc' = [callerPc EXCEPT ![c] = "returned"]
    /\ UNCHANGED <<received, rangeCache, taskNode, taskErr, outcome,
                   numGetNode, numCall, numSend>>

sendRPC(c, key, method, req) ==
    /\ chans' = Append(chans, <<>>)
    /\ chanVal' = [chanVal EXCEPT ![c] = Len(chans) + 1]
    /\ taskKey' = [taskKey EXCEPT ![c] = key]
    /\ taskMethod' = [taskMethod EXCEPT ![c] = method]
    /\ taskPc' = [taskPc EXCEPT ![c] = "getNode"]
    /\ reply' = [reply EXCEPT ![c] = [Error |-> NoErr, allocated |-> TRUE]]
    /\ numDispatch' = [numDispatch EXCEPT ![c] = @ + 1]
    /\ future' = [future EXCEPT ![c] = Len(chans) + 1]
    /\ request' = [request EXCEPT ![c] = req]
    /\ callerPc' = [callerPc EXCEPT ![c] = "returned"]
    /\ UNCHANGED <<received, rangeCache, taskNode, taskErr, outcome,
                   numGetNode, numCall, numSend>>

returnNil(c, req) ==
    /\ future' = [future EXCEPT ![c] = NilChan]
    /\ request' = [request EXCEPT ![c] = req]
    /\ callerPc' = [callerPc EXCEPT ![c] = "returned"]
    /\ UNCHANGED <<received, chans, rangeCache, taskVars, reply, outcome,
                   countVars>>

\* ---- sendRPC: the goroutine ----
\* Resolution under a lock that an earlier dispatch holds until it has sent.
TaskGetNodeSerialized(c) ==
    /\ taskPc[c] = "getNode"
    /\ \A d \in Calls : d < c => taskPc[d] \notin {"getNode", "call", "send"}
    /\ LET r == getNode(taskKey[c]) IN
         /\ taskNode' = [taskNode EXCEPT ![c] = r.node]
         /\ taskErr' = [taskErr EXCEPT ![c] = r.err]
         /\ outcome' = [outcome EXCEPT ![c] =
                          IF r.err = NoErr THEN "resolved" ELSE "resolveFailed"]
    /\ numGetNode' = [numGetNode EXCEPT ![c] = @ + 1]
    /\ taskPc' = [taskPc EXCEPT ![c] = "call"]
    /\ UNCHANGED <<callerVars, chans, rangeCache, taskKey, taskMethod,
                   chanVal, reply, numDispatch, numCall, numSend>>

\* Resolution that records the range of the key in the range cache.
TaskGetNodeCaching(c) ==
    /\ taskPc[c] = "getNode"
    /\ LET r == getNode(taskKey[c]) IN
         /\ taskNode' = [taskNode EXCEPT ![c] = r.node]
         /\ taskErr' = [taskErr EXCEPT ![c] = r.err]
         /\ outcome' = [outcome EXCEPT ![c] =
                          IF r.err = NoErr THEN "resolved" ELSE "resolveFailed"]
    /\ rangeCache' = rangeCache \cup
                       {[start |-> taskKey[c], end |-> taskKey[c] + 1,
                         node |-> RangeOf(taskKey[c])]}
    /\ numGetNode' = [numGetNode EXCEPT ![c] = @ + 1]
    /\ taskPc' = [taskPc EXCEPT ![c] = "call"]
    /\ UNCHANGED <<callerVars, chans, taskKey, taskMethod,
                   chanVal, reply, numDispatch, numCall, numSend>>

TaskGetNode(c) ==
    /\ taskPc[c] = "getNode"
    /\ LET r == getNode(taskKey[c]) IN
         /\ taskNode' = [taskNode EXCEPT ![c] = r.node]
         /\ taskErr' = [taskErr EXCEPT ![c] = r.err]
         /\ outcome' = [outcome EXCEPT ![c] =
                          IF r.err = NoErr THEN "resolved" ELSE "resolveFailed"]
    /\ numGetNode' = [numGetNode EXCEPT ![c] = @ + 1]
    /\ taskPc' = [taskPc EXCEPT ![c] = "call"]
    /\ UNCHANGED <<callerVars, chans, rangeCache, taskKey, taskMethod,
                   chanVal, reply, numDispatch, numCall, numSend>>

\* The remote call made whatever getNode returned.
TaskCallUnguarded(c) ==
    /\ taskPc[c] = "call"
    /\ \E out \in CallOutcomes :
         /\ taskErr' = [taskErr EXCEPT ![c] = out]
         /\ outcome' = [outcome EXCEPT ![c] =
                          IF out = NoErr THEN "ok" ELSE "callFailed"]
         /\ numCall' = [numCall EXCEPT ![c] = @ + 1]
    /\ taskPc' = [taskPc EXCEPT ![c] = "send"]
    /\ UNCHANGED <<callerVars, chans, rangeCache, taskKey, taskMethod,
                   chanVal, taskNode, reply, numDispatch, numGetNode, numSend>>

TaskCall(c) ==
    /\ taskPc[c] = "call"
    /\ IF taskErr[c] = NoErr
         THEN \E out \in CallOutcomes :
                /\ taskErr' = [taskErr EXCEPT ![c] = out]
                /\ outcome' = [outcome EXCEPT ![c] =
                                 IF out = NoErr THEN "ok" ELSE "callFailed"]
                /\ numCall' = [numCall EXCEPT ![c] = @ + 1]
         ELSE UNCHANGED <<taskErr, outcome, numCall>>
    /\ taskPc' = [taskPc EXCEPT ![c] = "send"]
    /\ UNCHANGED <<callerVars, chans, rangeCache, taskKey, taskMethod,
                   chanVal, taskNode, reply, numDispatch, numGetNode, numSend>>

\* The Error field of the reply struct after "if err != nil { ... Set(err) }".
SetErrorDropped(r, err) == r
SetError(r, err) == IF err # NoErr THEN [r EXCEPT !.Error = err] ELSE r

\* A send on a channel holding ChanCap values blocks.
TaskSendOnSuccessOnly(c) ==
    /\ taskPc[c] = "send"
    /\ reply' = [reply EXCEPT ![c] = SetError(@, taskErr[c])]
    /\ IF taskErr[c] = NoErr
         THEN /\ Len(chans[chanVal[c]]) < ChanCap
              /\ chans' = [chans EXCEPT ![chanVal[c]] = Append(@, c)]
              /\ numSend' = [numSend EXCEPT ![c] = @ + 1]
         ELSE UNCHANGED <<chans, numSend>>
    /\ taskPc' = [taskPc EXCEPT ![c] = "done"]
    /\ UNCHANGED <<callerVars, rangeCache, taskKey, taskMethod, chanVal,
                   taskNode, taskErr, outcome, numDispatch, numGetNode,
                   numCall>>

TaskSend(c) ==
    /\ taskPc[c] = "send"
    /\ reply' = [reply EXCEPT ![c] = SetError(@, taskErr[c])]
    /\ Len(chans[chanVal[c]]) < ChanCap
    /\ chans' = [chans EXCEPT ![chanVal[c]] = Append(@, c)]
    /\ numSend' = [numSend EXCEPT ![c] = @ + 1]
    /\ taskPc' = [taskPc EXCEPT ![c] = "done"]
    /\ UNCHANGED <<callerVars, rangeCache, taskKey, taskMethod, chanVal,
                   taskNode, taskErr, outcome, numDispatch, numGetNode,
                   numCall>>

\* ---- the facade: the methods of DistDB ----
KeyRequest(name, k) == [NoRequest EXCEPT !.op = name, !.Key = k]
InboxRequest(name, k) == [NoRequest EXCEPT !.op = name, !.Inbox = k]
SpanRequest(name, s, e) ==
    [NoRequest EXCEPT !.op = name, !.StartKey = s, !.EndKey = e]

Contains(c) ==
    /\ CanCall(c)
    /\ \E k \in KeySpace :
         sendRPC(c, k, "Node.Contains", KeyRequest("Contains", k))

Get(c) ==
    /\ CanCall(c)
    /\ \E k \in KeySpace : sendRPC(c, k, "Node.Get", KeyRequest("Get", k))

\* Put sent under the method name of Get.
PutAsGet(c) ==
    /\ CanCall(c)
    /\ \E k \in KeySpace : sendRPC(c, k, "Node.Get", KeyRequest("Put", k))

Put(c) ==
    /\ CanCall(c)
    /\ \E k \in KeySpace : sendRPC(c, k, "Node.Put", KeyRequest("Put", k))

Increment(c) ==
    /\ CanCall(c)
    /\ \E k \in KeySpace :
         sendRPC(c, k, "Node.Increment", KeyRequest("Increment", k))

Delete(c) ==
    /\ CanCall(c)
    /\ \E k \in KeySpace :
         sendRPC(c, k, "Node.Delete", KeyRequest("Delete", k))

DeleteRange(c) ==
    /\ CanCall(c)
    /\ \E s \in KeySpace, e \in KeyBounds :
         sendRPC(c, s, "Node.DeleteRange", SpanRequest("DeleteRange", s, e))

Scan(c) ==
    /\ CanCall(c)
    /\ \E s \in KeySpace, e \in KeyBounds, m \in ScanLimits :
         returnNil(c, [SpanRequest("Scan", s, e) EXCEPT !.MaxResults = m])

\* args.Keys[0] of an empty slice is a run-time panic in the caller.
EndTransaction(c) ==
    /\ CanCall(c)
    /\ \E ks \in TxnKeyLists :
         LET req == [NoRequest EXCEPT !.op = "EndTransaction", !.Keys = ks] IN
           IF Len(ks) = 0
             THEN /\ callerPc' = [callerPc EXCEPT ![c] = "panicked"]
                  /\ request' = [request EXCEPT ![c] = req]
                  /\ UNCHANGED <<future, received, chans, rangeCache,
                                 taskVars, reply, outcome, countVars>>
             ELSE sendRPC(c, ks[1], "Node.EndTransaction", req)

AccumulateTS(c) ==
    /\ CanCall(c)
    /\ \E k \in KeySpace :
         sendRPC(c, k, "Node.AccumulateTS", KeyRequest("AccumulateTS", k))

ReapQueue(c) ==
    /\ CanCall(c)
    /\ \E k \in KeySpace :
         sendRPC(c, k, "Node.ReapQueue", InboxRequest("ReapQueue", k))

EnqueueUpdate(c) ==
    /\ CanCall(c)
    /\ \E k \in KeySpace : returnNil(c, KeyRequest("EnqueueUpdate", k))

EnqueueMessage(c) ==
    /\ CanCall(c)
    /\ \E k \in KeySpace :
         sendRPC(c, k, "Node.EnqueueMessage", InboxRequest("EnqueueMessage", k))

\* ---- the caller reads the channel it was given ----
\* A receive from a nil channel blocks forever: the action is never enabled.
Receive(c) ==
    /\ callerPc[c] = "returned"
    /\ future[c] # NilChan
    /\ Len(chans[future[c]]) > 0
    /\ received' = [received EXCEPT ![c] = Head(chans[future[c]])]
    /\ chans' = [chans EXCEPT ![future[c]] = Tail(@)]
    /\ callerPc' = [callerPc EXCEPT ![c] = "received"]
    /\ UNCHANGED <<request, future, rangeCache, taskVars, reply, outcome,
                   countVars>>

Task(c) == TaskGetNode(c) \/ TaskCall(c) \/ TaskSend(c)

Next ==
    \E c \in Calls :
        \/ Contains(c)
        \/ Get(c)
        \/ Put(c)
        \/ Increment(c)
        \/ Delete(c)
        \/ DeleteRange(c)
        \/ Scan(c)
        \/ EndTransaction(c)
        \/ AccumulateTS(c)
        \/ ReapQueue(c)
        \/ EnqueueUpdate(c)
        \/ EnqueueMessage(c)
        \/ TaskGetNode(c)
        \/ TaskCall(c)
        \/ TaskSend(c)
        \/ Receive(c)

Spec == Init /\ [][Next]_vars

\* The Go scheduler runs every runnable goroutine; a caller need not read.
FairSpec == Spec /\ \A c \in Calls : WF_vars(Task(c))

TypeOK ==
    /\ callerPc \in [Calls -> {"idle", "returned", "panicked", "received"}]
    /\ taskPc \in [Calls -> {"none", "getNode", "call", "send", "done"}]
    /\ \A c \in Calls : future[c] \in 0..Len(chans)
    /\ Len(chans) <= MaxCalls

\* The callers use Get and Put alone: the dispatches of C10.
GetPutNext ==
    \E c \in Calls :
        \/ Get(c)
        \/ Put(c)
        \/ TaskGetNode(c)
        \/ TaskCall(c)
        \/ TaskSend(c)
        \/ Receive(c)

GetPutFairSpec ==
    Init /\ [][GetPutNext]_vars /\ \A c \in Calls : WF_vars(Task(c))

\* ---- helpers of the properties ----
Dispatched(c) == taskPc[c] # "none"
InFlight(c) == taskPc[c] \in {"getNode", "call", "send"}
Returned(c) == callerPc[c] \in {"returned", "received"}
\* The value of call c is in, or was read from, the channel returned for c.
Delivered(c) ==
    /\ future[c] # NilChan
    /\ \/ chans[future[c]] = <<c>> /\ received[c] = 0
       \/ chans[future[c]] = <<>> /\ received[c] = c
Failed(c) == outcome[c] \in {"resolveFailed", "callFailed"}

\* C1: every call of sendRPC makes its goroutine send exactly one value on
\* the returned channel and then terminate: the goroutine is never blocked
\* while it runs, the channel never gets a second value, and once the
\* goroutine has ended exactly one value was sent and no step of it is left.
C1_ExactlyOneValue ==
    \A c \in Calls :
        /\ numSend[c] <= 1
        /\ Dispatched(c) => Len(chans[chanVal[c]]) <= numSend[c]
        /\ InFlight(c) => numSend[c] = 0 /\ ENABLED Task(c)
        /\ taskPc[c] = "done" =>
             numSend[c] = 1 /\ Delivered(c) /\ ~ENABLED Task(c)

C1_Witness ==
    \E c \in Calls :
        /\ taskPc[c] = "done"
        /\ outcome[c] = "resolveFailed"
        /\ numSend[c] = 1
        /\ chans[future[c]] = <<c>>

\* C2: no operation of the DB interface returns a future on which a read
\* waits forever: the channel a caller holds is a channel whose response is
\* on its way or there, and a response that was read carries a result or a
\* populated Error.
C2_EveryFutureAnswers ==
    \A c \in Calls :
        /\ callerPc[c] = "returned" =>
             future[c] # NilChan /\ (InFlight(c) \/ Delivered(c))
        /\ callerPc[c] = "received" =>
             reply[received[c]].Error # NoErr \/ outcome[received[c]] = "ok"

\* C3: the value delivered for a dispatch has its Error field populated if
\* and only if resolution or the remote call failed, and a resolution
\* failure is the error it then carries.
C3_ErrorIffFailed ==
    \A c \in Calls :
        taskPc[c] = "done" =>
            /\ Delivered(c)
            /\ reply[c].Error # NoErr <=> Failed(c)
            /\ outcome[c] = "resolveFailed" => reply[c].Error = GetNodeErr

C3_Witness ==
    \E c \in Calls :
        /\ callerPc[c] = "received"
        /\ received[c] = c
        /\ outcome[c] = "resolveFailed"
        /\ reply[c].Error = GetNodeErr

\* C5: no facade operation raises a fault in the calling thread, whatever
\* the request.
C5_NoCallerFault == \A c \in Calls : callerPc[c] # "panicked"

\* C6: EndTransaction over keys of k distinct ranges dispatches exactly k
\* commit calls, and is committed only if every one of them acknowledged.
C6_OneCommitPerRange ==
    \A c \in Calls :
        (request[c].op = "EndTransaction" /\ Returned(c)) =>
            /\ numDispatch[c] = Cardinality(RangesOfKeys(request[c].Keys))
            /\ (Delivered(c) /\ reply[c].Error = NoErr) => outcome[c] = "ok"

\* C7: DeleteRange over [StartKey, EndKey) issues exactly one sub-dispatch
\* per range that intersects the interval.
C7_OneDispatchPerRange ==
    \A c \in Calls :
        (/\ request[c].op = "DeleteRange" /\ Returned(c)
         /\ request[c].StartKey < request[c].EndKey) =>
            numDispatch[c] =
                Cardinality(RangesOfSpan(request[c].StartKey, request[c].EndKey))

C9_UnimplementedFails ==
    \A c \in Calls :
        (request[c].op = "EnqueueUpdate" /\ Returned(c)) =>
            /\ Delivered(c)
            /\ reply[c].Error = "Unimplemented"
            /\ numGetNode[c] = 0 /\ numCall[c] = 0

\* C10: a Get and a Put dispatched concurrently for the same key never
\* deadlock: both goroutines end and each value is delivered on the channel
\* of its own call.
C10_GetPutSameKey ==
    \A g, p \in Calls :
        (/\ request[g].op = "Get" /\ request[p].op = "Put"
         /\ request[g].Key = request[p].Key
         /\ InFlight(g) /\ InFlight(p))
        ~> (/\ taskPc[g] = "done" /\ taskPc[p] = "done"
            /\ Delivered(g) /\ Delivered(p)
            /\ future[g] # future[p])

\* The Get has ended and delivered while the Put for the same key, past its
\* resolution, is still in flight.
C10_Witness ==
    \E g, p \in Calls :
        /\ request[g].op = "Get" /\ request[p].op = "Put"
        /\ request[g].Key = request[p].Key
        /\ taskPc[g] = "done" /\ Delivered(g)
        /\ taskPc[p] = "send" /\ numGetNode[p] = 1

\* ---- abandoned futures ----
\* The callers never read the channels they were given.
AbandonNext ==
    \E c \in Calls :
        \/ Contains(c)
        \/ Increment(c)
        \/ Delete(c)
        \/ AccumulateTS(c)
        \/ TaskGetNode(c)
        \/ TaskCall(c)
        \/ TaskSend(c)

AbandonFairSpec ==
    Init /\ [][AbandonNext]_vars /\ \A c \in Calls : WF_vars(Task(c))

\* C11: when the caller never reads the future, the goroutine is not
\* cancelled and still runs to its end: its one send on the capacity-one
\* channel does not block, and the value stays in the channel, unread.
C11_AbandonedTaskEnds ==
    \A c \in Calls :
        Dispatched(c)
        ~> (/\ taskPc[c] = "done"
            /\ callerPc[c] = "returned" /\ received[c] = 0
            /\ chans[chanVal[c]] = <<c>>)

C11_Witness ==
    \E c \in Calls :
        /\ taskPc[c] = "done" /\ numSend[c] = 1
        /\ callerPc[c] = "returned" /\ received[c] = 0
        /\ Len(chans[future[c]]) = ChanCap

\* C12: sendRPC returns the future without waiting for the resolver or the
\* remote call: at the step that returns a channel to the caller, the
\* goroutine of the call has not yet called getNode, has made no remote call
\* and has sent nothing.
C12_DispatchDoesNotWait ==
    [][\A c \in Calls :
         (callerPc[c] = "idle" /\ callerPc'[c] = "returned"
          /\ future'[c] # NilChan) =>
            /\ taskPc'[c] = "getNode"
            /\ numGetNode'[c] = 0 /\ numCall'[c] = 0 /\ numSend'[c] = 0
            /\ chans'[future'[c]] = <<>>]_vars

\* Two calls have returned while the resolution of neither has started.
C12_Witness ==
    \E c, d \in Calls :
        /\ c < d
        /\ callerPc[c] = "returned" /\ callerPc[d] = "returned"
        /\ future[c] # NilChan /\ future[d] # NilChan
        /\ taskPc[c] = "getNode" /\ taskPc[d] = "getNode"
        /\ numGetNode[c] = 0 /\ numGetNode[d] = 0

\* A range cache entry [start, end, node] covers the keys of [start, end).
Covers(e, k) == e.start <= k /\ k < e.end

\* C13: once a key was resolved, exactly one range cache entry covers it.
C13_ResolutionFillsCache ==
    \A c \in Calls :
        numGetNode[c] >= 1 =>
            Cardinality({e \in rangeCache : Covers(e, taskKey[c])}) = 1

\* C14: within one dispatch the order is resolve, remote call, delivery:
\* a remote call is made only after getNode returned a node, the value is
\* sent only after both steps, and when getNode fails no remote call is
\* made and the resolution error is the Error the response carries.
C14_ResolveCallDeliver ==
    \A c \in Calls :
        /\ taskPc[c] \in {"call", "send", "done"} => numGetNode[c] = 1
        /\ taskPc[c] \in {"none", "getNode"} =>
             numGetNode[c] = 0 /\ numCall[c] = 0 /\ numSend[c] = 0
        /\ numCall[c] > 0 =>
             /\ taskNode[c] # NilNode
             /\ taskPc[c] \in {"send", "done"}
        /\ numSend[c] > 0 => taskPc[c] = "done"
        /\ (numGetNode[c] = 1 /\ taskNode[c] = NilNode) =>
             /\ numCall[c] = 0
             /\ taskErr[c] = GetNodeErr
             /\ taskPc[c] = "done" => reply[c].Error = GetNodeErr

C14_Witness ==
    \E c \in Calls :
        /\ taskPc[c] = "done"
        /\ numGetNode[c] = 1 /\ numCall[c] = 0 /\ numSend[c] = 1
        /\ taskNode[c] = NilNode
        /\ reply[c].Error = GetNodeErr

SingleKeyOps == {"Get", "Put", "Increment", "Delete", "AccumulateTS",
                 "Contains", "ReapQueue", "EnqueueMessage"}
\* The sole routing key of a single-key request.
RoutingKey(req) ==
    IF req.op \in {"ReapQueue", "EnqueueMessage"} THEN req.Inbox ELSE req.Key

\* C15: a single-key operation makes exactly one call of sendRPC, with the
\* request's routing key (Key, or Inbox) and the method "Node.<operation>",
\* and returns the channel of that call.
C15_SingleKeyDispatch ==
    \A c \in Calls :
        (request[c].op \in SingleKeyOps /\ Returned(c)) =>
            /\ numDispatch[c] = 1
            /\ RoutingKey(request[c]) \in KeySpace
            /\ taskKey[c] = RoutingKey(request[c])
            /\ taskMethod[c] = "Node." \o request[c].op
            /\ future[c] # NilChan /\ future[c] = chanVal[c]

C15_Witness ==
    \E c, d \in Calls :
        /\ request[c].op = "ReapQueue" /\ request[d].op = "Put"
        /\ Returned(c) /\ Returned(d)
        /\ taskKey[c] = request[c].Inbox /\ taskMethod[c] = "Node.ReapQueue"
        /\ taskKey[d] = request[d].Key /\ taskMethod[d] = "Node.Put"

\* ---- independence of the dispatches ----
\* The Get and Put callers with no assumption on the scheduling: a goroutine
\* may stop for ever at any of its steps.
GetPutSpec == Init /\ [][GetPutNext]_vars

\* C16: dispatches are independent: whichever dispatch h stays for ever in
\* its resolution or its remote call, every other dispatch, made before or
\* after h, whose goroutine is scheduled delivers its value on its own
\* future.
C16_IndependentDispatches ==
    \A h \in Calls :
        (\A d \in Calls \ {h} : WF_vars(Task(d)))
        => (\A d \in Calls \ {h} :
              Dispatched(d) ~> (taskPc[d] = "done" /\ Delivered(d)))

\* A later dispatch has delivered while an earlier one has not yet resolved.
C16_Witness ==
    \E h, d \in Calls :
        /\ h < d
        /\ taskPc[h] = "getNode" /\ numGetNode[h] = 0
        /\ taskPc[d] = "done" /\ Delivered(d)

\* C17: each dispatch owns a fresh future and a fresh response: no two
\* dispatches have the same channel, the channel of call c holds no value
\* but the response of c, and what the caller of c reads is the response
\* allocated for c, with the Error of c's own resolution and remote call.
C17_OwnFutureOwnResponse ==
    \A c \in Calls :
        Dispatched(c) =>
            /\ reply[c].allocated
            /\ future[c] = chanVal[c]
            /\ \A d \in Calls \ {c} : Dispatched(d) => chanVal[d] # chanVal[c]
            /\ \A i \in DOMAIN chans[future[c]] : chans[future[c]][i] = c
            /\ callerPc[c] = "received" =>
                 /\ received[c] = c
                 /\ taskPc[c] = "done"
                 /\ reply[received[c]].Error = taskErr[c]

\* Both callers have read, each the response of its own call, and the two
\* calls were for different operations.
C17_Witness ==
    \E c, d \in Calls :
        /\ c # d /\ request[c].op # request[d].op
        /\ callerPc[c] = "received" /\ callerPc[d] = "received"
        /\ received[c] = c /\ received[d] = d
        /\ future[c] # future[d]

DispatchingOps == SingleKeyOps \cup {"DeleteRange", "EndTransaction"}

====
